---- MODULE Spec2Model ----
(***************************************************************************)
(* Order-pricing transaction of silver_empire: OrderSerializer.create and  *)
(* the catalog (Product, ProductVariation) it prices against, the order    *)
(* tables it writes inside transaction.atomic(), and a concurrent reader   *)
(* of the order list; the category tree (Category, its admin and its       *)
(* views), the product list filtered by category, and the order list and   *)
(* detail views with their per-customer visibility.                        *)
(*                                                                         *)
(* Money is a fixed-point decimal counted in thousandths (mills), so that  *)
(* 19.995 is 19995 and a value with two fractional digits is a multiple of *)
(* 10.  Columns declared decimal_places=2 hold multiples of 10.            *)
(***************************************************************************)
EXTENDS Integers, Sequences, FiniteSets, TLC

VARIABLES
    products,     \* table products:           id -> row
    variations,   \* table product_variations: id -> row
    orders,       \* table orders, committed rows; the row at index i has id i
    orderItems,   \* table order_items, committed rows in insertion order
    tx,           \* the create request in flight: its position, its
                  \* validated data and the rows written but not committed
    reader,       \* a concurrent GET of the order list: its position, the
                  \* order rows it fetched and the response it built
    changes,      \* number of catalog changes made so far
    categories,   \* table categories, rows in creation order; the row at
                  \* index i has id i
    walk,         \* a traversal of parent links in progress: the method,
                  \* the node it was called on, its loop variables
    response      \* the response of the last request on the catalog, the
                  \* category tree or the order views

\* The category store and the requests on the catalog.
treeVars == <<categories, walk, response>>

vars == <<products, variations, orders, orderItems, tx, reader, changes,
          categories, walk, response>>

\* ---------------------------------------------------------------- bounds
MaxItems == 2      \* line items per request
MaxOrders == 1     \* committed orders
MaxChanges == 1    \* catalog changes

\* ------------------------------------------------------------ primitives
\* Python None / SQL NULL.
None == -999999

\* The absence of a related instance in validated data.
NoInstance == [id |-> None]

\* Python truthiness of an optional Decimal: None and 0 are falsy.
Truthy(x) == x # None /\ x # 0

Abs(x) == IF x < 0 THEN 0 - x ELSE x

\* A mutation of the rounding: round-half-even, the decimal module's default.
Round2HalfEven(m) ==
    LET a == Abs(m)
        q == a \div 10
        r == a % 10
        up == r > 5 \/ (r = 5 /\ q % 2 = 1)
        v == (IF up THEN q + 1 ELSE q) * 10
    IN  IF m < 0 THEN 0 - v ELSE v

\* Decimal.quantize(Decimal('0.01'), rounding=ROUND_HALF_UP): ties go away
\* from zero.
Round2(m) ==
    LET v == ((Abs(m) + 5) \div 10) * 10
    IN  IF m < 0 THEN 0 - v ELSE v

\* --------------------------------------------------------------- catalog
ProductIds == {1, 2}
VariationIds == {1}
\* Ids of no row of the catalog.
UnknownIds == {9}

\* Product.current_price
ProductCurrentPrice(p) ==
    IF Truthy(p.sale_price) THEN p.sale_price ELSE p.base_price

\* ProductVariation.current_price
VariationCurrentPrice(v) ==
    IF Truthy(v.sale_price) THEN v.sale_price ELSE v.price

\* Product.is_on_sale
ProductIsOnSale(p) == p.sale_price # None /\ p.sale_price < p.base_price

\* ProductVariation.is_on_sale
VariationIsOnSale(v) == v.sale_price # None /\ v.sale_price < v.price

\* round(x, 2) of a Decimal x = n / d x 100 with d # 0, in hundredths of a
\* percent: Decimal.__round__ quantizes with ROUND_HALF_EVEN.  The quotient
\* is taken exactly: the 28 significant digits of the decimal context
\* leave the rounding of a quotient of two-digit amounts as it is.
RoundPercent(n, d) ==
    LET num == Abs(n) * 10000
        den == Abs(d)
        q == num \div den
        r == num % den
        up == 2 * r > den \/ (2 * r = den /\ q % 2 = 1)
        v == IF up THEN q + 1 ELSE q
    IN  IF (n < 0) # (d < 0) THEN 0 - v ELSE v

\* The value of a property that returned.
Returned(v) == [outcome |-> "returned", value |-> v]

\* The division of a Decimal by Decimal zero raises under the default
\* decimal context.
DivisionByZero == [outcome |-> "ZeroDivisionError", value |-> 0]

\* discount_percentage over a base price and a sale price.
DiscountOf(onSale, base, sale) ==
    IF onSale
    THEN IF base = 0 THEN DivisionByZero
         ELSE Returned(RoundPercent(base - sale, base))
    ELSE Returned(0)

\* Product.discount_percentage
ProductDiscountPercentage(p) ==
    DiscountOf(ProductIsOnSale(p), p.base_price, p.sale_price)

\* ProductVariation.discount_percentage
VariationDiscountPercentage(v) ==
    DiscountOf(VariationIsOnSale(v), v.price, v.sale_price)

\* The instance a PrimaryKeyRelatedField loads for a product id.
ProductInstance(id) ==
    [id |-> id,
     base_price |-> products[id].base_price,
     sale_price |-> products[id].sale_price]

\* The instance a PrimaryKeyRelatedField loads for a variation id.
VariationInstance(id) ==
    [id |-> id,
     product_id |-> variations[id].product,
     price |-> variations[id].price,
     sale_price |-> variations[id].sale_price]

\* ------------------------------------------------------ request inputs
ProductRefs == {None} \cup ProductIds \cup UnknownIds
Quantities == {-1, 0, 2}
SuppliedPrices == {None, 7770}
SuppliedTotals == {None, 99990}
ShippingCosts == {None, 500, -500}

\* A line item as the caller sends it: ids, a quantity and, possibly, a
\* unit_price the caller made up.
Line(p, v, q, u) ==
    [product |-> p, variation |-> v, quantity |-> q, unit_price |-> u]

Lines ==
    {Line(p, None, 2, None) : p \in ProductRefs}
        \cup {Line(p, v, 2, None) : p \in {None} \cup ProductIds, v \in VariationIds}
        \cup {Line(1, None, q, None) : q \in Quantities}
        \cup {Line(p, None, 2, u) : p \in {None, 1}, u \in SuppliedPrices}

\* A line that passes validation against every catalog state, used ahead of
\* the last line of a request.
HeadLines == {Line(1, None, 2, None)}

RECURSIVE ItemLists(_)
ItemLists(n) ==
    IF n = 0 THEN {<<>>}
    ELSE {<<>>} \cup {<<l>> : l \in Lines}
            \cup {<<h>> \o t : h \in HeadLines, t \in ItemLists(n - 1) \ {<<>>}}

Requests ==
    [items : ItemLists(MaxItems),
     shipping_cost : ShippingCosts,
     total_amount : SuppliedTotals]

NoRequest == [items |-> <<>>, shipping_cost |-> None, total_amount |-> None]

\* ----------------------------------------------------------- validation
\* Field errors of one line: PrimaryKeyRelatedField lookups of product and
\* variation, and the minimum of the PositiveIntegerField quantity.
LineFieldErrors(l) ==
    (IF l.product # None /\ l.product \notin DOMAIN products
        THEN {"UnknownProduct"} ELSE {})
    \cup (IF l.variation # None /\ l.variation \notin DOMAIN variations
        THEN {"UnknownVariation"} ELSE {})
    \cup (IF l.quantity # None /\ l.quantity < 0
        THEN {"InvalidQuantity"} ELSE {})

\* A mutation of the line validation: validate() never compares the
\* variation's product with the product given.
LineErrorsNoValidate(l) == LineFieldErrors(l)

\* OrderItemSerializer.validate, run once the fields of the line are valid.
LineErrors(l) ==
    IF LineFieldErrors(l) # {} THEN LineFieldErrors(l)
    ELSE IF l.variation # None /\ l.product # None
            /\ variations[l.variation].product # l.product
         THEN {"VariationProductMismatch"}
         ELSE {}

RequestErrors(raw) ==
    UNION {LineErrors(raw.items[i]) : i \in DOMAIN raw.items}

\* A mutation of the validated line: unit_price is writable and reaches
\* validated data.
ValidatedLineWritablePrice(l) ==
    [product |-> IF l.product = None THEN NoInstance
                 ELSE ProductInstance(l.product),
     variation |-> IF l.variation = None THEN NoInstance
                   ELSE VariationInstance(l.variation),
     quantity |-> l.quantity,
     unit_price |-> l.unit_price]

\* One line of validated data: ids replaced by the instances loaded, and the
\* read-only fields (id, product_name, unit_price) dropped.
ValidatedLine(l) ==
    [product |-> IF l.product = None THEN NoInstance
                 ELSE ProductInstance(l.product),
     variation |-> IF l.variation = None THEN NoInstance
                   ELSE VariationInstance(l.variation),
     quantity |-> l.quantity,
     unit_price |-> None]

\* ------------------------------------------------ OrderSerializer.create
\* A mutation of the price resolution: the product's price wins when both
\* references are given.
UnitPriceProductFirst(item) ==
    LET found ==
            IF item.product.id # None
            THEN (IF Truthy(ProductCurrentPrice(item.product))
                  THEN ProductCurrentPrice(item.product)
                  ELSE item.product.base_price)
            ELSE IF item.variation.id # None
            THEN VariationCurrentPrice(item.variation)
            ELSE None
    IN  Round2(IF found = None
               THEN (IF item.unit_price = None THEN 0 ELSE item.unit_price)
               ELSE found)

\* The unit price of one validated line: the variation's current_price if a
\* variation is given, else the product's current_price or base_price, else
\* the line's own unit_price or 0.00; then rounded.
UnitPrice(item) ==
    LET found ==
            IF item.variation.id # None
            THEN VariationCurrentPrice(item.variation)
            ELSE IF item.product.id # None
            THEN (IF Truthy(ProductCurrentPrice(item.product))
                  THEN ProductCurrentPrice(item.product)
                  ELSE item.product.base_price)
            ELSE None
    IN  Round2(IF found = None
               THEN (IF item.unit_price = None THEN 0 ELSE item.unit_price)
               ELSE found)

\* int(item.get('quantity', 1))
Quantity(item) == IF item.quantity = None THEN 1 ELSE item.quantity

\* The order_items row create() inserts for a validated line.
ItemRow(orderId, item) ==
    [order |-> orderId,
     product |-> item.product.id,
     variation |-> item.variation.id,
     quantity |-> Quantity(item),
     unit_price |-> UnitPrice(item)]

\* The orders row Order.objects.create(**validated_data) inserts: customer
\* was popped, total_amount and status take the column defaults.
NewOrderRow(id, shipping) ==
    [id |-> id,
     customer |-> None,
     total_amount |-> 0,
     status |-> "pending",
     shipping_cost |-> IF shipping = None THEN 0 ELSE shipping,
     is_deleted |-> FALSE]

TxIdle ==
    [pc |-> "idle", raw |-> NoRequest, validated |-> <<>>,
     shipping_cost |-> 0, order |-> NoInstance, items |-> <<>>,
     total |-> 0, result |-> "none", errors |-> {}]

\* create() up to the loop: items popped from validated data, the shipping
\* cost defaulted, the atomic block opened and the order row inserted in it.
CreateBegin(raw, items, shipping) ==
    [TxIdle EXCEPT
        !.pc = "items",
        !.raw = raw,
        !.validated = items,
        !.shipping_cost = IF Truthy(shipping) THEN shipping ELSE 0,
        !.order = NewOrderRow(Len(orders) + 1, shipping)]

\* POST /orders/: the serializer validates the request; a valid one enters
\* create() with its validated data, a refused one is answered with its
\* errors.
PostOrder(raw) ==
    /\ tx.pc \in {"idle", "done"}
    /\ Len(orders) < MaxOrders
    /\ IF RequestErrors(raw) # {}
       THEN tx' = [TxIdle EXCEPT !.pc = "done", !.raw = raw,
                                 !.result = "ValidationError",
                                 !.errors = RequestErrors(raw)]
       ELSE tx' = CreateBegin(raw,
                              [i \in DOMAIN raw.items |->
                                  ValidatedLine(raw.items[i])],
                              raw.shipping_cost)
    /\ UNCHANGED <<treeVars, products, variations, orders, orderItems, reader, changes>>

\* A mutation of the loop body: the stock of the line's product is
\* decremented by the quantity ordered.
CreateItemDecrementStock ==
    /\ tx.pc = "items"
    /\ Len(tx.items) < Len(tx.validated)
    /\ LET row == ItemRow(tx.order.id, tx.validated[Len(tx.items) + 1])
       IN  /\ tx' = [tx EXCEPT !.items = Append(@, row),
                               !.total = @ + row.unit_price * row.quantity]
           /\ products' =
                 [p \in DOMAIN products |->
                     IF p = row.product
                     THEN [products[p] EXCEPT
                             !.stock_quantity = @ - row.quantity]
                     ELSE products[p]]
    /\ UNCHANGED <<treeVars, variations, orders, orderItems, reader, changes>>

\* A mutation of the loop body: the line total ignores the quantity.
CreateItemNoQuantity ==
    /\ tx.pc = "items"
    /\ Len(tx.items) < Len(tx.validated)
    /\ LET row == ItemRow(tx.order.id, tx.validated[Len(tx.items) + 1])
       IN  tx' = [tx EXCEPT !.items = Append(@, row),
                            !.total = @ + row.unit_price]
    /\ UNCHANGED <<treeVars, products, variations, orders, orderItems, reader, changes>>

\* One iteration of the loop over items_data: price the line, insert its
\* row, add the line total.
CreateItem ==
    /\ tx.pc = "items"
    /\ Len(tx.items) < Len(tx.validated)
    /\ LET row == ItemRow(tx.order.id, tx.validated[Len(tx.items) + 1])
       IN  tx' = [tx EXCEPT !.items = Append(@, row),
                            !.total = @ + row.unit_price * row.quantity]
    /\ UNCHANGED <<treeVars, products, variations, orders, orderItems, reader, changes>>

\* After the loop: add the rounded shipping cost, round the total, save the
\* order and leave the atomic block, which commits every row written.  The
\* request is answered with the order.
CreateSave ==
    /\ tx.pc = "items"
    /\ Len(tx.items) = Len(tx.validated)
    /\ LET shipping == Round2(tx.shipping_cost)
           row == [tx.order EXCEPT
                     !.total_amount = Round2(tx.total + shipping),
                     !.shipping_cost = shipping]
       IN  /\ orders' = Append(orders, row)
           /\ orderItems' = orderItems \o tx.items
           /\ tx' = [TxIdle EXCEPT !.pc = "done", !.result = "created",
                                   !.order = row]
    /\ UNCHANGED <<treeVars, products, variations, reader, changes>>

\* A mutation of the failure path: no atomic block, so the rows written
\* before the failure stay.
NoRollback ==
    /\ tx.pc = "items"
    /\ orders' = Append(orders, tx.order)
    /\ orderItems' = orderItems \o tx.items
    /\ tx' = [TxIdle EXCEPT !.pc = "done", !.result = "DatabaseError",
                            !.order = tx.order, !.items = tx.items]
    /\ UNCHANGED <<treeVars, products, variations, reader, changes>>

\* A statement inside the atomic block raises: the block rolls back the
\* order row and the item rows written so far, and the error propagates.
\* tx keeps the rows as the objects the request still holds.
AtomicRollback ==
    /\ tx.pc = "items"
    /\ tx' = [TxIdle EXCEPT !.pc = "done", !.result = "DatabaseError",
                            !.order = tx.order, !.items = tx.items]
    /\ UNCHANGED <<treeVars, products, variations, orders, orderItems, reader, changes>>

\* ---------------------------------------------------- concurrent reader
\* A mutation of the isolation: without the atomic block every statement
\* commits by itself, so the order row is visible as soon as it is inserted.
VisibleOrdersNoAtomic ==
    IF tx.pc = "items" THEN Append(orders, tx.order) ELSE orders

\* The orders rows another connection sees: those committed.  The rows of
\* the atomic block in flight are not among them.
VisibleOrders == orders

\* The order_items rows another connection sees.
VisibleItems == orderItems

\* ActiveOrderManager.get_queryset
ActiveOrders(rows) == {rows[i] : i \in {j \in DOMAIN rows : ~rows[j].is_deleted}}

ReaderIdle == [pc |-> "idle", rows |-> {}, view |-> {}]

\* GET /orders/, first query: the order rows of the list view's queryset.
ReadOrders ==
    /\ reader.pc = "idle"
    /\ reader' = [pc |-> "items", rows |-> ActiveOrders(VisibleOrders),
                  view |-> {}]
    /\ UNCHANGED <<treeVars, products, variations, orders, orderItems, tx, changes>>

\* GET /orders/, second query: prefetch_related('items') fetches the items
\* of the rows of the first query, and the response is built.
ReadItems ==
    /\ reader.pc = "items"
    /\ reader' = [pc |-> "idle", rows |-> {},
                  view |-> {[order |-> o,
                             items |-> SelectSeq(VisibleItems,
                                         LAMBDA it : it.order = o.id)]
                            : o \in reader.rows}]
    /\ UNCHANGED <<treeVars, products, variations, orders, orderItems, tx, changes>>

\* ------------------------------------------------------ catalog changes
Prices == {1000, 2000}
SalePrices == {None, 0}

\* ProductAdmin.save_model with the Pricing fieldset edited.
AdminSaveProduct(p, base, sale) ==
    /\ changes < MaxChanges
    /\ products' = [products EXCEPT ![p].base_price = base,
                                    ![p].sale_price = sale]
    /\ changes' = changes + 1
    /\ UNCHANGED <<treeVars, variations, orders, orderItems, tx, reader>>

\* ProductVariationAdmin.save_model with the Pricing fieldset edited.
AdminSaveVariation(v, price, sale) ==
    /\ changes < MaxChanges
    /\ variations' = [variations EXCEPT ![v].price = price,
                                        ![v].sale_price = sale]
    /\ changes' = changes + 1
    /\ UNCHANGED <<treeVars, products, orders, orderItems, tx, reader>>

\* A mutation of the soft delete: the cascade also reaches the order items
\* of the product and clears their price.
SoftDeleteProductCascadeItems(p) ==
    /\ changes < MaxChanges
    /\ products' = [products EXCEPT ![p].is_deleted = TRUE,
                                    ![p].is_active = FALSE]
    /\ variations' = [v \in DOMAIN variations |->
                        IF variations[v].product = p
                        THEN [variations[v] EXCEPT !.is_deleted = TRUE,
                                                   !.is_active = FALSE]
                        ELSE variations[v]]
    /\ orderItems' = [i \in DOMAIN orderItems |->
                        IF orderItems[i].product = p
                        THEN [orderItems[i] EXCEPT !.unit_price = 0]
                        ELSE orderItems[i]]
    /\ changes' = changes + 1
    /\ UNCHANGED <<treeVars, orders, tx, reader>>

\* Product.soft_delete: the product and each of its variations.
SoftDeleteProduct(p) ==
    /\ changes < MaxChanges
    /\ products' = [products EXCEPT ![p].is_deleted = TRUE,
                                    ![p].is_active = FALSE]
    /\ variations' = [v \in DOMAIN variations |->
                        IF variations[v].product = p
                        THEN [variations[v] EXCEPT !.is_deleted = TRUE,
                                                   !.is_active = FALSE]
                        ELSE variations[v]]
    /\ changes' = changes + 1
    /\ UNCHANGED <<treeVars, orders, orderItems, tx, reader>>

\* A mutation of the restore: it cascades to the variations, as the soft
\* delete does.
RestoreProductCascade(p) ==
    /\ changes < MaxChanges
    /\ products' = [products EXCEPT ![p].is_deleted = FALSE,
                                    ![p].is_active = TRUE]
    /\ variations' = [v \in DOMAIN variations |->
                        IF variations[v].product = p
                        THEN [variations[v] EXCEPT !.is_deleted = FALSE,
                                                   !.is_active = TRUE]
                        ELSE variations[v]]
    /\ changes' = changes + 1
    /\ UNCHANGED <<treeVars, orders, orderItems, tx, reader>>

\* Product.restore: the product alone.
RestoreProduct(p) ==
    /\ changes < MaxChanges
    /\ products' = [products EXCEPT ![p].is_deleted = FALSE,
                                    ![p].is_active = TRUE]
    /\ changes' = changes + 1
    /\ UNCHANGED <<treeVars, variations, orders, orderItems, tx, reader>>

\* ProductVariation.soft_delete
SoftDeleteVariation(v) ==
    /\ changes < MaxChanges
    /\ variations' = [variations EXCEPT ![v].is_deleted = TRUE,
                                        ![v].is_active = FALSE]
    /\ changes' = changes + 1
    /\ UNCHANGED <<treeVars, products, orders, orderItems, tx, reader>>

\* ProductVariation.restore
RestoreVariation(v) ==
    /\ changes < MaxChanges
    /\ variations' = [variations EXCEPT ![v].is_deleted = FALSE,
                                        ![v].is_active = TRUE]
    /\ changes' = changes + 1
    /\ UNCHANGED <<treeVars, products, orders, orderItems, tx, reader>>

\* -------------------------------------------------------- category store
MaxCategories == 3

\* No traversal in progress.
WalkIdle == [pc |-> "idle", method |-> "none", node |-> None,
             parent |-> None, visited |-> <<>>]

\* No catalog request answered yet.
NoResponse == [kind |-> "none"]

\* The n-th category created is given the n-th name and the n-th sort
\* order of two fixed lists: the names do not follow the order of the ids,
\* and the sort orders follow neither the ids nor the names.
CategoryName(n) ==
    <<"rings", "chains", "anklets", "earrings", "bracelets">>[n]
CategorySortOrder(n) == IF n = 3 THEN 1 ELSE 0

\* The names in the order the database sorts them.
NameRank(name) ==
    CHOOSE i \in 1..5 :
        <<"anklets", "bracelets", "chains", "earrings", "rings">>[i] = name

\* The categories row of a new category: is_active takes the column default.
CategoryRow(n, parent) ==
    [name |-> CategoryName(n), parent |-> parent, is_active |-> TRUE,
     sort_order |-> CategorySortOrder(n)]

\* The category store next to which orders are created: a root and a child.
DefaultStore == <<CategoryRow(1, None), CategoryRow(2, 1)>>

\* The optional parent references a category can be given.
ParentRefs == {None} \cup DOMAIN categories

\* queryset ordering ['sort_order', 'name'] (Category.Meta.ordering).
Before(a, b) ==
    \/ categories[a].sort_order < categories[b].sort_order
    \/ /\ categories[a].sort_order = categories[b].sort_order
       /\ NameRank(categories[a].name) < NameRank(categories[b].name)

RECURSIVE Ordered(_)
Ordered(ids) ==
    IF ids = {} THEN <<>>
    ELSE LET first == CHOOSE a \in ids : \A b \in ids \ {a} : Before(a, b)
         IN  <<first>> \o Ordered(ids \ {first})

\* A mutation of the children query: the is_active filter is left out.
SubcategoriesUnfiltered(c) ==
    Ordered({k \in DOMAIN categories : categories[k].parent = c})

\* category.subcategories.filter(is_active=True)
Subcategories(c) ==
    Ordered({k \in DOMAIN categories :
                categories[k].parent = c /\ categories[k].is_active})

\* Category.is_leaf
IsLeaf(c) ==
    ~\E k \in DOMAIN categories :
        categories[k].parent = c /\ categories[k].is_active

Reverse(seq) == [i \in 1..Len(seq) |-> seq[Len(seq) + 1 - i]]

\* A while loop over parent links that never meets a node without parent:
\* more iterations than there are categories have been made, so that a
\* node has come again and the loop goes on for ever.
LoopsForever(v) == [outcome |-> "loops", value |-> v]

\* collect_descendants nested deeper than there are categories: a category
\* has come again along the chain of active children, the recursion does
\* not bottom out and Python raises RecursionError.
RecursionError == [outcome |-> "RecursionError", value |-> <<>>]

\* Category.level: the while loop, entered with parent, level and the
\* number of iterations left before a node must have come again.
RECURSIVE LevelLoop(_, _, _)
LevelLoop(parent, level, fuel) ==
    IF parent = None THEN Returned(level)
    ELSE IF fuel = 0 THEN LoopsForever(0)
    ELSE LevelLoop(categories[parent].parent, level + 1, fuel - 1)

\* A mutation of level: the count starts at 1.
LevelFromOne(c) == LevelLoop(categories[c].parent, 1, Len(categories))

\* Category.level
Level(c) == LevelLoop(categories[c].parent, 0, Len(categories))

\* Category.get_ancestors: the while loop.
RECURSIVE AncestorsLoop(_, _, _)
AncestorsLoop(parent, ancestors, fuel) ==
    IF parent = None THEN Returned(Reverse(ancestors))
    ELSE IF fuel = 0 THEN LoopsForever(<<>>)
    ELSE AncestorsLoop(categories[parent].parent, Append(ancestors, parent),
                       fuel - 1)

\* A mutation of get_ancestors: the list is returned nearest parent first.
GetAncestorsNotReversed(c) ==
    LET r == AncestorsLoop(categories[c].parent, <<>>, Len(categories))
    IN  IF r.outcome = "returned" THEN Returned(Reverse(r.value)) ELSE r

\* Category.get_ancestors
GetAncestors(c) == AncestorsLoop(categories[c].parent, <<>>, Len(categories))

\* Category.get_root: the while loop.
RECURSIVE RootLoop(_, _)
RootLoop(root, fuel) ==
    IF categories[root].parent = None THEN Returned(root)
    ELSE IF fuel = 0 THEN LoopsForever(None)
    ELSE RootLoop(categories[root].parent, fuel - 1)

\* Category.get_root
GetRoot(c) == RootLoop(c, Len(categories))

\* " > ".join(names): the names with the separator between them, as the
\* sequence of the pieces of the string.
Join(names) ==
    IF names = <<>> THEN <<>>
    ELSE [i \in 1..(2 * Len(names) - 1) |->
            IF i % 2 = 1 THEN names[(i + 1) \div 2] ELSE " > "]

\* Category.full_path: the while loop.
RECURSIVE PathLoop(_, _, _)
PathLoop(parent, path, fuel) ==
    IF parent = None THEN Returned(Join(Reverse(path)))
    ELSE IF fuel = 0 THEN LoopsForever(<<>>)
    ELSE PathLoop(categories[parent].parent,
                  Append(path, categories[parent].name), fuel - 1)

\* A mutation of full_path: the path is joined without being reversed.
FullPathNotReversed(c) ==
    LET r == PathLoop(categories[c].parent, <<categories[c].name>>,
                      Len(categories))
    IN  IF r.outcome = "returned" THEN Returned(Reverse(r.value)) ELSE r

\* Category.full_path
FullPath(c) ==
    PathLoop(categories[c].parent, <<categories[c].name>>, Len(categories))

\* Category.get_descendants: collect_descendants(category) at a nesting
\* depth, and its for loop over the active children.  The value is the
\* part of the descendants list the call appends.
RECURSIVE CollectDescendants(_, _)
RECURSIVE CollectEach(_, _)
CollectDescendants(category, depth) ==
    IF depth > Len(categories) THEN RecursionError
    ELSE CollectEach(Subcategories(category), depth)

CollectEach(children, depth) ==
    IF children = <<>> THEN Returned(<<>>)
    ELSE LET below == CollectDescendants(Head(children), depth + 1)
             rest == CollectEach(Tail(children), depth)
         IN  IF below.outcome # "returned" THEN below
             ELSE IF rest.outcome # "returned" THEN rest
             ELSE Returned(<<Head(children)>> \o below.value \o rest.value)

\* A mutation of get_descendants: the children alone, no recursion.
GetDescendantsOneLevel(c) == Returned(Subcategories(c))

\* Category.get_descendants
GetDescendants(c) == CollectDescendants(c, 0)

\* The methods that walk the parent links in a while loop.
WalkMethods == {"level", "get_ancestors", "get_root", "full_path"}

\* A method is called on a category: the statements before its while loop.
\* level, get_ancestors and full_path start at the parent, get_root at the
\* category; full_path has the category's own name in its path already.
StartWalk(method, c) ==
    /\ walk.pc # "loop"
    /\ method \in WalkMethods
    /\ c \in DOMAIN categories
    /\ walk' = [pc |-> "loop", method |-> method, node |-> c,
                parent |-> IF method = "get_root" THEN c
                           ELSE categories[c].parent,
                visited |-> IF method = "full_path" THEN <<c>> ELSE <<>>]
    /\ UNCHANGED <<products, variations, orders, orderItems, tx, reader,
                   changes, categories, response>>

\* The while condition of the method at its loop variable.
WalkGoesOn ==
    IF walk.method = "get_root" THEN categories[walk.parent].parent # None
    ELSE walk.parent # None

\* One test of the while condition and, when it holds, one run of the loop
\* body: count or collect the node, move to its parent.  When it fails the
\* method returns.  No method looks at the nodes it has visited.  What the
\* loop collects is recorded up to one node more than there are
\* categories; from there on only its position is followed.
WalkStep ==
    /\ walk.pc = "loop"
    /\ IF WalkGoesOn
       THEN walk' =
              [walk EXCEPT
                 !.parent = categories[walk.parent].parent,
                 !.visited = IF walk.method = "get_root"
                                \/ Len(@) > Len(categories)
                             THEN @ ELSE Append(@, walk.parent)]
       ELSE walk' = [walk EXCEPT !.pc = "done"]
    /\ UNCHANGED <<products, variations, orders, orderItems, tx, reader,
                   changes, categories, response>>

\* The response of an admin request.
AdminResponse == [kind |-> "admin"]

\* CategoryAdmin add form saved: the parent is any category or none.
AdminAddCategory(parent) ==
    /\ Len(categories) < MaxCategories
    /\ parent \in ParentRefs
    /\ categories' = Append(categories,
                            CategoryRow(Len(categories) + 1, parent))
    /\ response' = AdminResponse
    /\ UNCHANGED <<products, variations, orders, orderItems, tx, reader,
                   changes, walk>>

\* CategoryAdmin change form saved with another parent: the form offers
\* every category, the one edited included, and save_model saves it.
AdminSetParent(c, parent) ==
    /\ c \in DOMAIN categories
    /\ parent \in ParentRefs
    /\ categories' = [categories EXCEPT ![c].parent = parent]
    /\ response' = AdminResponse
    /\ UNCHANGED <<products, variations, orders, orderItems, tx, reader,
                   changes, walk>>

\* CategoryAdmin.activate_categories / deactivate_categories on a category.
AdminSetActive(c, active) ==
    /\ c \in DOMAIN categories
    /\ categories' = [categories EXCEPT ![c].is_active = active]
    /\ response' = AdminResponse
    /\ UNCHANGED <<products, variations, orders, orderItems, tx, reader,
                   changes, walk>>

\* A mutation of the lookup: Category.objects.get(pk=pk), the default
\* manager, which finds inactive rows too.
StoredCategory(pk) == pk \in DOMAIN categories

\* Category.active_objects.get(pk=pk) finds a row.
ActiveCategory(pk) == pk \in DOMAIN categories /\ categories[pk].is_active

\* The response of a request that met Category.DoesNotExist.
NotFound(kind, pk) == [kind |-> kind, pk |-> pk, status |-> "404"]

\* The response that never comes: the request is in a loop for ever.
Hangs(kind, pk) == [kind |-> kind, pk |-> pk, status |-> "hangs"]

\* GET /categories/<pk>/ (CategoryDetailView with CategorySerializer).
CategoryDetail(pk) ==
    /\ response' =
          IF ~ActiveCategory(pk) THEN NotFound("detail", pk)
          ELSE IF Level(pk).outcome # "returned" THEN Hangs("detail", pk)
          ELSE [kind |-> "detail", pk |-> pk, status |-> "200",
                name |-> categories[pk].name,
                parent |-> categories[pk].parent,
                level |-> Level(pk).value,
                full_path |-> FullPath(pk).value,
                is_leaf |-> IsLeaf(pk),
                subcategories |-> Subcategories(pk)]
    /\ UNCHANGED <<products, variations, orders, orderItems, tx, reader,
                   changes, categories, walk>>

\* GET /categories/<pk>/breadcrumb/ (category_breadcrumb).
CategoryBreadcrumb(pk) ==
    /\ response' =
          IF ~ActiveCategory(pk) THEN NotFound("breadcrumb", pk)
          ELSE IF GetAncestors(pk).outcome # "returned"
          THEN Hangs("breadcrumb", pk)
          ELSE LET cats == Append(GetAncestors(pk).value, pk)
               IN  [kind |-> "breadcrumb", pk |-> pk, status |-> "200",
                    data |-> [i \in DOMAIN cats |->
                                [id |-> cats[i],
                                 name |-> categories[cats[i]].name,
                                 level |-> Level(cats[i]).value]]]
    /\ UNCHANGED <<products, variations, orders, orderItems, tx, reader,
                   changes, categories, walk>>

\* One entry of CategoryListSerializer.
CategoryListEntry(c) ==
    [id |-> c, name |-> categories[c].name, parent |-> categories[c].parent,
     is_active |-> categories[c].is_active,
     sort_order |-> categories[c].sort_order,
     level |-> Level(c).value,
     full_path |-> FullPath(c).value,
     subcategory_count |-> Len(Subcategories(c))]

\* GET /categories/<pk>/children/ (category_children).
CategoryChildren(pk) ==
    /\ response' =
          IF ~ActiveCategory(pk) THEN NotFound("children", pk)
          ELSE IF FullPath(pk).outcome # "returned"
          THEN Hangs("children", pk)
          ELSE LET children == Subcategories(pk)
               IN  [kind |-> "children", pk |-> pk, status |-> "200",
                    parent |-> [id |-> pk, name |-> categories[pk].name,
                                full_path |-> FullPath(pk).value],
                    data |-> [i \in DOMAIN children |->
                                CategoryListEntry(children[i])]]
    /\ UNCHANGED <<products, variations, orders, orderItems, tx, reader,
                   changes, categories, walk>>

\* Category.active_objects.filter(parent__isnull=True)
\*     .order_by('sort_order', 'name')
ActiveRoots ==
    Ordered({k \in DOMAIN categories :
                categories[k].parent = None /\ categories[k].is_active})

\* GET /categories/tree/ (category_tree).  CategoryTreeSerializer declares
\* children = SerializerMethodField() and has no get_children method: the
\* first root to be serialized raises AttributeError, and the request is
\* answered with status 500.  Without an active root nothing is serialized
\* and the data is the empty list.
CategoryTree ==
    /\ response' =
          IF ActiveRoots = <<>>
          THEN [kind |-> "tree", status |-> "200", data |-> <<>>]
          ELSE [kind |-> "tree", status |-> "500",
                error |-> "AttributeError"]
    /\ UNCHANGED <<products, variations, orders, orderItems, tx, reader,
                   changes, categories, walk>>

\* ------------------------------------------------------- product listing
\* ProductAdmin change form saved with another category: any category or
\* none.
AdminSetProductCategory(p, category) ==
    /\ p \in DOMAIN products
    /\ category \in {None} \cup DOMAIN categories
    /\ products' = [products EXCEPT ![p].category = category]
    /\ response' = AdminResponse
    /\ UNCHANGED <<variations, orders, orderItems, tx, reader, changes,
                   categories, walk>>

\* ActiveProductManager.get_queryset
ActiveProducts ==
    {p \in DOMAIN products :
        ~products[p].is_deleted /\ products[p].is_active}

\* ProductListView.get_queryset with the query parameter category: the
\* active products, narrowed to those of the category and of its
\* descendants when the category exists (Category.objects, inactive
\* categories included), and left as they are when it does not.
ProductQueryset(category) ==
    IF category = None \/ category \notin DOMAIN categories
    THEN Returned(ActiveProducts)
    ELSE LET descendants == GetDescendants(category)
         IN  IF descendants.outcome # "returned" THEN descendants
             ELSE Returned(
                    {p \in ActiveProducts :
                        products[p].category
                           \in {category}
                               \cup {descendants.value[i] :
                                       i \in DOMAIN descendants.value}})

\* ProductFilter.category, NumberFilter(field_name='category__id'), which
\* DjangoFilterBackend applies to the same query parameter: the products
\* of exactly that category.
ProductFilterCategory(queryset, category) ==
    IF category = None THEN queryset
    ELSE {p \in queryset : products[p].category = category}

\* GET /products/?category=<category> (ProductListView.list):
\* filter_queryset(get_queryset()), then each product serialized with the
\* full_path of its category.  results is the set of the products listed.
ProductList(category) ==
    /\ response' =
          IF ProductQueryset(category).outcome # "returned"
          THEN [kind |-> "products", category |-> category,
                status |-> "500", error |-> "RecursionError"]
          ELSE LET listed ==
                      ProductFilterCategory(ProductQueryset(category).value,
                                            category)
               IN  IF \E p \in listed :
                         /\ products[p].category # None
                         /\ FullPath(products[p].category).outcome
                               # "returned"
                   THEN [kind |-> "products", category |-> category,
                         status |-> "hangs"]
                   ELSE [kind |-> "products", category |-> category,
                         status |-> "200", results |-> listed]
    /\ UNCHANGED <<products, variations, orders, orderItems, tx, reader,
                   changes, categories, walk>>

\* ----------------------------------------------------------- order views
\* The customers, by id: 1 and 2 are regular ones, 3 has is_staff alone, 4
\* has is_superuser alone (the admin's Permissions fieldset sets the flags
\* one by one).
Users == {1, 2, 3, 4}
IsStaff(user) == user = 3
IsSuperuser(user) == user = 4

\* request.user of a request without credentials: AnonymousUser, which is
\* no customer.
Anonymous == 0

\* The response of a request that permissions.IsAuthenticated refused.
NotAuthenticated(kind, user) ==
    [kind |-> kind, user |-> user, status |-> "NotAuthenticated"]

\* The request a user sends: request.user next to the request's data.
RequestOf(user, raw) ==
    [user |-> user, items |-> raw.items,
     shipping_cost |-> raw.shipping_cost, total_amount |-> raw.total_amount]

\* POST /orders/ sent by a user: IsAuthenticated lets an authenticated user
\* through, whose request then holds the user for create() to read.
PostOrderAs(user, raw) ==
    IF user = Anonymous
    THEN /\ tx.pc \in {"idle", "done"}
         /\ tx' = [TxIdle EXCEPT !.pc = "done",
                                 !.raw = RequestOf(user, raw),
                                 !.result = "NotAuthenticated"]
         /\ UNCHANGED <<treeVars, products, variations, orders, orderItems,
                        reader, changes>>
    ELSE PostOrder(RequestOf(user, raw))

\* A mutation of get_queryset: the filter on the customer is left out.
OrderQuerysetUnfiltered(user) == ActiveOrders(orders)

\* OrderListCreateView.get_queryset: the orders not soft-deleted, all of
\* them for staff and superusers, those of the user for anyone else.
OrderQueryset(user) ==
    IF IsStaff(user) \/ IsSuperuser(user) THEN ActiveOrders(orders)
    ELSE {o \in ActiveOrders(orders) : o.customer = user}

\* GET /orders/ sent by a user; data is the order rows the response
\* serializes.
OrderList(user) ==
    /\ response' =
          IF user = Anonymous THEN NotAuthenticated("order_list", user)
          ELSE [kind |-> "order_list", user |-> user, status |-> "200",
                data |-> OrderQueryset(user)]
    /\ UNCHANGED <<products, variations, orders, orderItems, tx, reader,
                   changes, categories, walk>>

\* GET /orders/<id>/ sent by a user (OrderDetailView.get_object): the order
\* is looked up among those not soft-deleted, then a user who is neither
\* staff nor superuser is refused unless the order's customer is the user.
OrderDetail(user, id) ==
    /\ response' =
          IF user = Anonymous THEN NotAuthenticated("order_detail", user)
          ELSE IF ~\E o \in ActiveOrders(orders) : o.id = id
          THEN [kind |-> "order_detail", user |-> user, id |-> id,
                status |-> "404"]
          ELSE IF ~(IsStaff(user) \/ IsSuperuser(user))
                  /\ orders[id].customer # user
          THEN [kind |-> "order_detail", user |-> user, id |-> id,
                status |-> "PermissionDenied"]
          ELSE [kind |-> "order_detail", user |-> user, id |-> id,
                status |-> "200", data |-> orders[id]]
    /\ UNCHANGED <<products, variations, orders, orderItems, tx, reader,
                   changes, categories, walk>>

\* OrderAdmin change form saved with the customer and is_deleted fields
\* edited: the form offers every customer and none.
AdminSaveOrder(id, customer, deleted) ==
    /\ id \in DOMAIN orders
    /\ customer \in {None} \cup Users
    /\ orders' = [orders EXCEPT ![id].customer = customer,
                                ![id].is_deleted = deleted]
    /\ response' = AdminResponse
    /\ UNCHANGED <<products, variations, orderItems, tx, reader, changes,
                   categories, walk>>

\* --------------------------------------------------------- specification
ProductRow(base, sale) ==
    [base_price |-> base, sale_price |-> sale, stock_quantity |-> 5,
     category |-> None, is_active |-> TRUE, is_deleted |-> FALSE]

VariationRow(p, price, sale) ==
    [product |-> p, price |-> price, sale_price |-> sale,
     stock_quantity |-> 5, is_active |-> TRUE, is_deleted |-> FALSE]

\* The catalog of the runs with one catalog: product 1 with a variation of
\* another price, product 2 on sale.
DefaultCatalog ==
    [products |-> (1 :> ProductRow(2000, None) @@ 2 :> ProductRow(1000, 500)),
     variations |-> (1 :> VariationRow(1, 1000, None))]

\* The default catalog after both products were soft-deleted.
DeletedCatalog ==
    [products |->
        [p \in ProductIds |->
            [DefaultCatalog.products[p] EXCEPT !.is_deleted = TRUE,
                                               !.is_active = FALSE]],
     variations |->
        [v \in VariationIds |->
            [DefaultCatalog.variations[v] EXCEPT !.is_deleted = TRUE,
                                                 !.is_active = FALSE]]]

\* Catalogs to create orders against: product 1 without sale price or with
\* a sale price of 0.00, its variation without or with a sale price.
Catalogs ==
    {[products |-> (1 :> ProductRow(2000, sale1) @@ 2 :> ProductRow(1000, 500)),
      variations |-> (1 :> v)] :
        sale1 \in {None, 0},
        v \in {VariationRow(1, 1000, None), VariationRow(1, 3000, 500)}}

InitStore(catalog, store) ==
    /\ products = catalog.products
    /\ variations = catalog.variations
    /\ orders = <<>>
    /\ orderItems = <<>>
    /\ tx = TxIdle
    /\ reader = ReaderIdle
    /\ changes = 0
    /\ categories = store
    /\ walk = WalkIdle
    /\ response = NoResponse

InitWith(catalog) == InitStore(catalog, DefaultStore)

\* Order creation over each of the catalogs.
Init == \E catalog \in Catalogs : InitWith(catalog)

Next ==
    \/ \E raw \in Requests : PostOrder(raw)
    \/ CreateItem
    \/ CreateSave
    \/ AtomicRollback

Spec == Init /\ [][Next]_vars

\* Requests that supply no money of their own.
PlainRequests ==
    {r \in Requests :
        /\ r.total_amount = None
        /\ \A i \in DOMAIN r.items : r.items[i].unit_price = None}

\* Order creation next to a concurrent reader of the order list.
InitReader == InitWith(DefaultCatalog)

NextReader ==
    \/ \E raw \in PlainRequests : PostOrder(raw)
    \/ CreateItem
    \/ CreateSave
    \/ AtomicRollback
    \/ ReadOrders
    \/ ReadItems

SpecReader == InitReader /\ [][NextReader]_vars

\* Requests of valid lines on products 1 and 2 and on variation 1.
CatalogLines ==
    {Line(1, None, 2, None), Line(2, None, 2, None), Line(1, 1, 2, None)}

CatalogRequests ==
    {r \in PlainRequests :
        /\ r.shipping_cost = None
        /\ \A i \in DOMAIN r.items : r.items[i] \in CatalogLines}

\* Order creation interleaved with changes of the catalog.
InitCatalog == InitWith(DefaultCatalog) \/ InitWith(DeletedCatalog)

NextCatalog ==
    \/ \E raw \in CatalogRequests : PostOrder(raw)
    \/ CreateItem
    \/ CreateSave
    \/ AtomicRollback
    \/ \E p \in ProductIds, base \in Prices, sale \in SalePrices :
          AdminSaveProduct(p, base, sale)
    \/ \E v \in VariationIds, price \in Prices, sale \in SalePrices :
          AdminSaveVariation(v, price, sale)
    \/ \E p \in ProductIds : SoftDeleteProduct(p)
    \/ \E p \in ProductIds : RestoreProduct(p)
    \/ \E v \in VariationIds : SoftDeleteVariation(v)
    \/ \E v \in VariationIds : RestoreVariation(v)

SpecCatalog == InitCatalog /\ [][NextCatalog]_vars

\* The category store under creation, re-parenting and activation
\* toggling, and the requests that read it.
InitTree == InitStore(DefaultCatalog, <<>>)

NextTree ==
    \/ \E parent \in ParentRefs : AdminAddCategory(parent)
    \/ \E c \in DOMAIN categories, parent \in ParentRefs :
          AdminSetParent(c, parent)
    \/ \E c \in DOMAIN categories, active \in BOOLEAN :
          AdminSetActive(c, active)
    \/ \E pk \in DOMAIN categories \cup UnknownIds : CategoryDetail(pk)
    \/ \E pk \in DOMAIN categories \cup UnknownIds : CategoryBreadcrumb(pk)
    \/ \E pk \in DOMAIN categories \cup UnknownIds : CategoryChildren(pk)
    \/ CategoryTree

SpecTree == InitTree /\ [][NextTree]_vars

\* The parent-walking methods run step by step on the stores that
\* creation and re-parenting produce.  A method that has been called keeps
\* running: its loop is weakly fair.
NextWalk ==
    \/ \E parent \in ParentRefs : AdminAddCategory(parent)
    \/ \E c \in DOMAIN categories, parent \in ParentRefs :
          AdminSetParent(c, parent)
    \/ \E method \in WalkMethods, c \in DOMAIN categories :
          StartWalk(method, c)
    \/ WalkStep

SpecWalk == InitTree /\ [][NextWalk]_vars /\ WF_vars(WalkStep)

\* Base price and sale price pairs of the price properties: no sale price,
\* a sale price of 0.00, below, equal to and above the base price, a
\* discount of a quarter, of two thirds, of a third of a hundredth of a
\* percent and of half a hundredth of a percent, and a negative sale price
\* on a base price of 0.00.
PricePairs ==
    {<<2000, None>>, <<2000, 0>>, <<100000, 75000>>, <<3000, 1000>>,
     <<1000, 1000>>, <<1000, 3000>>, <<300000, 299990>>,
     <<200000, 199990>>, <<0, -1000>>}

\* The price fields of ProductListSerializer / ProductDetailSerializer.
ReadProductPrices(p) ==
    /\ response' =
          [kind |-> "product", id |-> p,
           base_price |-> products[p].base_price,
           sale_price |-> products[p].sale_price,
           current_price |-> ProductCurrentPrice(products[p]),
           is_on_sale |-> ProductIsOnSale(products[p]),
           discount_percentage |-> ProductDiscountPercentage(products[p])]
    /\ UNCHANGED <<products, variations, orders, orderItems, tx, reader,
                   changes, categories, walk>>

\* The price fields of ProductVariationSerializer.
ReadVariationPrices(v) ==
    /\ response' =
          [kind |-> "variation", id |-> v,
           base_price |-> variations[v].price,
           sale_price |-> variations[v].sale_price,
           current_price |-> VariationCurrentPrice(variations[v]),
           is_on_sale |-> VariationIsOnSale(variations[v]),
           discount_percentage |->
               VariationDiscountPercentage(variations[v])]
    /\ UNCHANGED <<products, variations, orders, orderItems, tx, reader,
                   changes, categories, walk>>

\* The price properties read over catalogs whose product 1 and variation 1
\* take their prices from the pairs above.
InitPrices ==
    \E pp \in PricePairs, vp \in PricePairs :
        InitWith([products |->
                     (1 :> ProductRow(pp[1], pp[2])
                        @@ 2 :> ProductRow(1000, 500)),
                  variations |-> (1 :> VariationRow(1, vp[1], vp[2]))])

NextPrices ==
    \/ \E p \in ProductIds : ReadProductPrices(p)
    \/ \E v \in VariationIds : ReadVariationPrices(v)

SpecPrices == InitPrices /\ [][NextPrices]_vars

\* create() applied to validated data drawn from bounded sets: product
\* instances whose base_price holds a decimal of three fractional digits,
\* and a shipping cost of three fractional digits.
PricingShipping == {None, 4995}

PricingLines ==
    {[product |-> [id |-> 1, base_price |-> l[1], sale_price |-> None],
      variation |-> NoInstance,
      quantity |-> l[2],
      unit_price |-> None] :
        l \in {<<19995, 3>>, <<5005, 1>>, <<1004, 1>>, <<1004, 3>>}}

RECURSIVE PricingItemLists(_)
PricingItemLists(n) ==
    IF n = 0 THEN {<<>>}
    ELSE {<<>>} \cup {<<l>> \o t : l \in PricingLines,
                                   t \in PricingItemLists(n - 1)}

\* OrderSerializer.create(validated_data), called with the data as given.
CallCreate(items, shipping) ==
    /\ tx.pc \in {"idle", "done"}
    /\ Len(orders) < MaxOrders
    /\ tx' = CreateBegin(NoRequest, items, shipping)
    /\ UNCHANGED <<treeVars, products, variations, orders, orderItems, reader, changes>>

NextPricing ==
    \/ \E items \in PricingItemLists(MaxItems), shipping \in PricingShipping :
          CallCreate(items, shipping)
    \/ CreateItem
    \/ CreateSave

SpecPricing == InitWith(DefaultCatalog) /\ [][NextPricing]_vars

\* The requests of the order views: one line each, on product 1 or on
\* product 2.
OrderRequests ==
    {[items |-> <<Line(p, None, 2, None)>>, shipping_cost |-> None,
      total_amount |-> None] : p \in ProductIds}

\* Orders created, edited in the admin, listed and retrieved by the
\* customers and by a client without credentials.
NextOrders ==
    \/ \E user \in Users \cup {Anonymous}, raw \in OrderRequests :
          PostOrderAs(user, raw)
    \/ CreateItem
    \/ CreateSave
    \/ AtomicRollback
    \/ \E id \in DOMAIN orders, customer \in {None} \cup Users,
          deleted \in BOOLEAN :
          AdminSaveOrder(id, customer, deleted)
    \/ \E user \in Users \cup {Anonymous} : OrderList(user)
    \/ \E user \in Users \cup {Anonymous},
          id \in DOMAIN orders \cup UnknownIds :
          OrderDetail(user, id)

SpecOrders == InitWith(DefaultCatalog) /\ [][NextOrders]_vars

\* The product list filtered by category, over stores and catalogs in
\* which categories are created, re-parented and toggled, products are
\* given categories and soft-deleted.
NextListing ==
    \/ \E parent \in ParentRefs : AdminAddCategory(parent)
    \/ \E c \in DOMAIN categories, parent \in ParentRefs :
          AdminSetParent(c, parent)
    \/ \E c \in DOMAIN categories, active \in BOOLEAN :
          AdminSetActive(c, active)
    \/ \E p \in ProductIds, category \in {None} \cup DOMAIN categories :
          AdminSetProductCategory(p, category)
    \/ \E p \in ProductIds : SoftDeleteProduct(p)
    \/ \E category \in {None} \cup DOMAIN categories \cup UnknownIds :
          ProductList(category)

SpecListing == InitWith(DefaultCatalog) /\ [][NextListing]_vars

\* ---------------------------------------------------------------- claims
\* The committed item rows of an order, in insertion order.
ItemsOf(orderId) == SelectSeq(orderItems, LAMBDA it : it.order = orderId)

RECURSIVE SumLines(_)
SumLines(rows) ==
    IF rows = <<>> THEN 0
    ELSE Head(rows).unit_price * Head(rows).quantity + SumLines(Tail(rows))

Failed == tx.pc = "done" /\ tx.result # "created"

\* The step that completes a create: the atomic block commits and the
\* request is answered with the order.
CommitStep == tx.pc = "items" /\ tx'.pc = "done" /\ tx'.result = "created"

\* The rows that step commits.
NewOrder == orders'[Len(orders')]
NewItems == SubSeq(orderItems', Len(orderItems) + 1, Len(orderItems'))

C2_ExampleItems ==
    << [product |-> [id |-> 1, base_price |-> 19995, sale_price |-> None],
        variation |-> NoInstance, quantity |-> 3, unit_price |-> None],
       [product |-> [id |-> 1, base_price |-> 5005, sale_price |-> None],
        variation |-> NoInstance, quantity |-> 1, unit_price |-> None] >>

C3_AllOrNothing ==
    [][/\ ~CommitStep => (orders' = orders /\ orderItems' = orderItems)
       /\ (tx'.pc = "done" /\ tx'.result # "created") =>
             /\ \A i \in DOMAIN orders' : orders'[i].id # tx'.order.id
             /\ \A k \in DOMAIN orderItems' :
                   orderItems'[k].order # tx'.order.id
             /\ tx'.result = "ValidationError" => tx'.order.id = None]_vars

\* C3 witness: the request failed inside the atomic block after its order
\* row and two item rows had been written, and no row is committed.
C3_Witness ==
    /\ Failed
    /\ tx.result = "DatabaseError"
    /\ tx.order.id # None
    /\ Len(tx.items) = 2
    /\ orders = <<>>
    /\ orderItems = <<>>

\* C4: the response of a concurrent reader never holds the order of the
\* request in flight, and holds every order as committed: with all its
\* items, and with the final total rather than the column default.
C4_ReaderIsolation ==
    /\ \A o \in reader.rows : tx.pc = "items" => o.id # tx.order.id
    /\ \A e \in reader.view :
          /\ tx.pc = "items" => e.order.id # tx.order.id
          /\ e.order.id \in DOMAIN orders
          /\ e.order = orders[e.order.id]
          /\ e.items = ItemsOf(e.order.id)
          /\ e.order.total_amount =
                Round2(SumLines(e.items) + e.order.shipping_cost)

\* C4 witness: the reader ran its first query while a create had written
\* its order row and an item row, and saw no row of it.
C4_Witness ==
    /\ tx.pc = "items"
    /\ Len(tx.items) >= 1
    /\ reader.pc = "items"
    /\ reader.rows = {}

\* A line names a product and a variation owned by another product.
Mismatched(l) ==
    /\ l.product \in DOMAIN products
    /\ l.variation \in DOMAIN variations
    /\ variations[l.variation].product # l.product

\* C5: a request with a line whose variation belongs to another product
\* than the one given fails with VariationProductMismatch and commits
\* nothing.
C5_VariationProductMismatch ==
    (\E i \in DOMAIN tx.raw.items : Mismatched(tx.raw.items[i])) =>
        /\ tx.pc = "done"
        /\ tx.result = "ValidationError"
        /\ "VariationProductMismatch" \in tx.errors
        /\ tx.order.id = None
        /\ tx.items = <<>>

\* C5 witness: a request of a valid line followed by a mismatched line has
\* been refused.
C5_Witness ==
    /\ Failed
    /\ Len(tx.raw.items) = 2
    /\ Mismatched(tx.raw.items[2])
    /\ tx.errors = {"VariationProductMismatch"}

\* C6: no order is committed without items, and no committed item is
\* without a pricing source (a request with an empty item list, or with a
\* line of neither product nor variation, fails with
\* MissingPricingReference and commits nothing).
C6_MissingPricingReference ==
    /\ \A i \in DOMAIN orders : ItemsOf(orders[i].id) # <<>>
    /\ \A k \in DOMAIN orderItems :
          orderItems[k].product # None \/ orderItems[k].variation # None

\* C7: every committed item has quantity >= 1 (a request with a line of
\* quantity <= 0 fails with InvalidQuantity and commits nothing).
C7_InvalidQuantity ==
    \A k \in DOMAIN orderItems : orderItems[k].quantity >= 1

\* C8: in the order a create commits, the item of a line with a variation
\* has unit_price round2(variation.current_price) whatever the product's
\* prices, and the item of a line with a product alone has
\* round2(product.current_price).
C8_VariationPrecedence ==
    [][CommitStep =>
          /\ Len(NewItems) = Len(tx.validated)
          /\ \A k \in DOMAIN tx.validated :
                LET line == tx.validated[k] IN
                /\ line.variation.id # None =>
                      NewItems[k].unit_price =
                          Round2(VariationCurrentPrice(line.variation))
                /\ (line.variation.id = None /\ line.product.id # None) =>
                      NewItems[k].unit_price =
                          Round2(ProductCurrentPrice(line.product))]_vars

\* C8 witness: an item is committed for product 1 and its variation, whose
\* current prices differ, and it has the variation's.
C8_Witness ==
    \E k \in DOMAIN orderItems :
        /\ orderItems[k].product = 1
        /\ orderItems[k].variation = 1
        /\ orderItems[k].unit_price
              = Round2(VariationCurrentPrice(VariationInstance(1)))
        /\ orderItems[k].unit_price
              # Round2(ProductCurrentPrice(ProductInstance(1)))

\* C9: a step that changes the catalog (a price, a sale price, a soft
\* delete, a restore) leaves the unit_price of every committed item and the
\* total_amount of every committed order as they were.
C9_PricesFrozen ==
    [][(products' # products \/ variations' # variations) =>
          /\ DOMAIN orders' = DOMAIN orders
          /\ DOMAIN orderItems' = DOMAIN orderItems
          /\ \A i \in DOMAIN orders :
                orders'[i].total_amount = orders[i].total_amount
          /\ \A k \in DOMAIN orderItems :
                orderItems'[k].unit_price = orderItems[k].unit_price]_vars

\* C9 witness: the catalog has changed and a committed item of product 1
\* holds a unit price that is no longer the product's current price.
C9_Witness ==
    /\ changes > 0
    /\ \E k \in DOMAIN orderItems :
          /\ orderItems[k].product = 1
          /\ orderItems[k].variation = None
          /\ orderItems[k].unit_price
                # Round2(ProductCurrentPrice(products[1]))

\* The unit price the references of a validated line determine.
PriceOfReferences(line) ==
    IF line.variation.id # None
    THEN Round2(VariationCurrentPrice(line.variation))
    ELSE IF line.product.id # None
    THEN Round2(ProductCurrentPrice(line.product))
    ELSE 0

RECURSIVE SumReferences(_)
SumReferences(lines) ==
    IF lines = <<>> THEN 0
    ELSE PriceOfReferences(Head(lines)) * Head(lines).quantity
            + SumReferences(Tail(lines))

\* C10: the money of the order a create commits is a function of the line
\* references, the quantities, the shipping cost and the catalog rows
\* loaded for them: whatever unit_price or total_amount the request
\* supplied, the unit prices are those of the references (0.00 without a
\* reference) and the total is their sum plus the shipping cost.
C10_MoneyNotFromCaller ==
    [][CommitStep =>
          LET shipping == IF tx.raw.shipping_cost = None THEN 0
                          ELSE tx.raw.shipping_cost
          IN
          /\ Len(NewItems) = Len(tx.validated)
          /\ \A k \in DOMAIN NewItems :
                NewItems[k].unit_price = PriceOfReferences(tx.validated[k])
          /\ NewOrder.total_amount = SumReferences(tx.validated) + shipping
          /\ NewOrder.shipping_cost = shipping]_vars

\* C10 witness: create() has priced every line of a request that supplied
\* a total_amount and, on a line without pricing reference, a unit_price,
\* and priced that line 0.00.
C10_Witness ==
    /\ tx.pc = "items"
    /\ Len(tx.items) = Len(tx.validated)
    /\ tx.raw.total_amount = 99990
    /\ \E k \in DOMAIN tx.raw.items :
          /\ tx.raw.items[k].unit_price = 7770
          /\ tx.raw.items[k].product = None
          /\ tx.raw.items[k].variation = None
          /\ tx.items[k].unit_price = 0

\* C11: a step of a create request, whether the request goes on to succeed
\* or to fail, leaves the products and variations rows (stock, prices,
\* flags) and the category store as they were; the orders and order_items
\* tables change only in the step that commits, which appends one order
\* and its items and leaves the earlier rows as they were.
C11_FrameEffect ==
    [][tx' # tx =>
          /\ products' = products
          /\ variations' = variations
          /\ categories' = categories
          /\ ~CommitStep => (orders' = orders /\ orderItems' = orderItems)
          /\ CommitStep =>
                /\ Len(orders') = Len(orders) + 1
                /\ SubSeq(orders', 1, Len(orders)) = orders
                /\ SubSeq(orderItems', 1, Len(orderItems)) = orderItems
                /\ \A k \in DOMAIN NewItems :
                      NewItems[k].order = NewOrder.id]_vars

\* C11 witness: an order of two units of product 1 is committed, and the
\* product's stock, the variation's stock and the category store are those
\* of the start.
C11_Witness ==
    /\ \E k \in DOMAIN orderItems :
          orderItems[k].product = 1 /\ orderItems[k].quantity = 2
    /\ products[1].stock_quantity = 5
    /\ variations[1].stock_quantity = 5
    /\ categories = DefaultStore

\* C12: every committed order has shipping_cost >= 0, and therefore
\* total_amount >= the sum of its line amounts.
C12_ShippingNonNegative ==
    \A i \in DOMAIN orders :
        /\ orders[i].shipping_cost >= 0
        /\ orders[i].total_amount >= SumLines(ItemsOf(orders[i].id))

\* The last response holds the price fields of a product or a variation.
PriceResponse == response.kind \in {"product", "variation"}

\* C13: for every product and variation, current_price is the sale price
\* when the sale price is not null, a sale price of 0.00 included, and the
\* base price (price for a variation) otherwise.
C13_CurrentPrice ==
    PriceResponse =>
        LET w == response IN
        /\ w.sale_price # None => w.current_price = w.sale_price
        /\ w.sale_price = None => w.current_price = w.base_price

\* C14: whenever is_on_sale is false (no sale price, or a sale price not
\* below the base price) current_price is the base price, and current_price
\* never exceeds the base price.
C14_SaleBelowBase ==
    PriceResponse =>
        LET w == response IN
        /\ w.is_on_sale <=>
              (w.sale_price # None /\ w.sale_price < w.base_price)
        /\ ~w.is_on_sale => w.current_price = w.base_price
        /\ w.current_price <= w.base_price

\* C15: discount_percentage returns, without dividing by zero; it is 0
\* when not on sale, and when on sale it is (base - sale) / base x 100
\* rounded to two decimals (within half a hundredth of the quotient),
\* which lies in (0, 100]; for a price of 100.00 and a sale price of 75.00
\* it is 25.00.
C15_DiscountPercentage ==
    PriceResponse =>
        LET w == response
            d == response.discount_percentage
            twice == 2 * ((w.base_price - w.sale_price) * 10000
                             - d.value * w.base_price)
        IN
        /\ d.outcome = "returned"
        /\ ~w.is_on_sale => d.value = 0
        /\ w.is_on_sale =>
              /\ d.value > 0
              /\ d.value <= 10000
              /\ twice <= Abs(w.base_price)
              /\ 0 - twice <= Abs(w.base_price)
        /\ (w.base_price = 100000 /\ w.sale_price = 75000) =>
              d.value = 2500

\* The categories met by following parent links from c, in at most n steps.
RECURSIVE AncestorSet(_, _)
AncestorSet(c, n) ==
    IF n = 0 \/ categories[c].parent = None THEN {}
    ELSE {categories[c].parent} \cup AncestorSet(categories[c].parent, n - 1)

AncestorsOf(c) == AncestorSet(c, Len(categories))

\* No category is met again by following parent links from it.
Acyclic == \A c \in DOMAIN categories : c \notin AncestorsOf(c)

Range(seq) == {seq[i] : i \in DOMAIN seq}

\* C16: in an acyclic category store, level returns 0 for a category
\* without parent and the level of the parent plus 1 for a category with
\* one, and it is the length of get_ancestors.
C16_Level ==
    Acyclic =>
        \A c \in DOMAIN categories :
            /\ Level(c).outcome = "returned"
            /\ GetAncestors(c).outcome = "returned"
            /\ categories[c].parent = None => Level(c).value = 0
            /\ categories[c].parent # None =>
                  Level(c).value = Level(categories[c].parent).value + 1
            /\ Level(c).value = Len(GetAncestors(c).value)

\* C16 witness: the breadcrumb of a category two levels down lists the
\* levels 0, 1, 2.
C16_Witness ==
    /\ Acyclic
    /\ response.kind = "breadcrumb"
    /\ response.status = "200"
    /\ Len(response.data) = 3
    /\ \A i \in 1..3 : response.data[i].level = i - 1

\* C17: in every store reached by creating, re-parenting and activating or
\* deactivating categories, what get_descendants returns for a category
\* holds neither the category nor any of its ancestors.
C17_DescendantsExcludeAncestors ==
    \A c \in DOMAIN categories :
        GetDescendants(c).outcome = "returned" =>
            /\ c \notin Range(GetDescendants(c).value)
            /\ AncestorsOf(c) \cap Range(GetDescendants(c).value) = {}

\* The active categories from which parent links lead to c.
ReachableActive(c) ==
    {k \in DOMAIN categories :
        categories[k].is_active /\ c \in AncestorsOf(k)}

\* The categories reached from c through active children alone, in at
\* most n steps down.
RECURSIVE ActiveBelow(_, _, _)
ActiveBelow(c, found, n) ==
    IF n = 0 THEN found
    ELSE ActiveBelow(c,
                     found \cup {k \in DOMAIN categories :
                                    /\ categories[k].is_active
                                    /\ categories[k].parent
                                          \in found \cup {c}},
                     n - 1)

NoDuplicates(seq) ==
    \A i, j \in DOMAIN seq : i # j => seq[i] # seq[j]

\* Every category of the list is a child of c or comes after its parent.
ParentFirst(c, seq) ==
    \A i \in DOMAIN seq :
        \/ categories[seq[i]].parent = c
        \/ \E j \in 1..(i - 1) : seq[j] = categories[seq[i]].parent

C19_Terminates == (walk.pc = "loop") ~> (walk.pc = "done")

\* The names joined by the separator, piece by piece.
RECURSIVE JoinedNames(_)
JoinedNames(names) ==
    IF Len(names) = 1 THEN names
    ELSE <<Head(names), " > ">> \o JoinedNames(Tail(names))

\* C20: in an acyclic store, full_path is the names of get_ancestors, root
\* first, followed by the category's own name, joined by " > ", and its
\* first name is the name of get_root.
C20_FullPath ==
    Acyclic =>
        \A c \in DOMAIN categories :
            /\ FullPath(c).outcome = "returned"
            /\ GetRoot(c).outcome = "returned"
            /\ FullPath(c).value =
                  JoinedNames(
                      [i \in DOMAIN GetAncestors(c).value |->
                          categories[GetAncestors(c).value[i]].name]
                      \o <<categories[c].name>>)
            /\ FullPath(c).value[1] = categories[GetRoot(c).value].name

\* C20 witness: the detail of a category two levels down shows the path of
\* its three names, the root's first.
C20_Witness ==
    /\ Acyclic
    /\ response.kind = "detail"
    /\ response.status = "200"
    /\ response.level = 2
    /\ Len(response.full_path) = 5
    /\ response.full_path[1] = categories[GetRoot(response.pk).value].name
    /\ response.full_path[5] = response.name

\* C21: a re-parenting of a category under itself or under one of its
\* descendants (a category from which parent links lead to it) is refused:
\* the category keeps the parent it had.
C21_InvalidParentRejected ==
    [][\A c \in DOMAIN categories, parent \in DOMAIN categories :
          (AdminSetParent(c, parent)
              /\ (parent = c \/ c \in AncestorsOf(parent)))
          => categories'[c].parent = categories[c].parent]_vars

\* C22: the parent links of the category store form a forest in every
\* state reached by creations, re-parentings and activation toggles
\* interleaved with reads: no category is met again by following parent
\* links from it.
C22_ParentChainAcyclic ==
    \A c \in DOMAIN categories : c \notin AncestorSet(c, Len(categories))

\* The breadcrumb of the last request, when it was answered with one.
BreadcrumbAnswered ==
    response.kind = "breadcrumb" /\ response.status = "200"

\* C23: a breadcrumb that is answered lists the ancestors of the category
\* root first and then the category itself: its first entry has no parent,
\* each entry is the parent of the next, the last is the category, and each
\* carries the name and the level of its own category; so the levels are
\* 0, 1, ..., level(category) and there are level(category) + 1 entries.
C23_Breadcrumb ==
    BreadcrumbAnswered =>
        LET data == response.data
            n == Len(data)
        IN  /\ n = Level(response.pk).value + 1
            /\ data[n].id = response.pk
            /\ categories[data[1].id].parent = None
            /\ \A i \in 1..(n - 1) :
                  data[i].id = categories[data[i + 1].id].parent
            /\ \A i \in 1..n :
                  /\ data[i].level = i - 1
                  /\ data[i].level = Level(data[i].id).value
                  /\ data[i].name = categories[data[i].id].name

\* C23 witness: a breadcrumb of three entries, root first, whose middle
\* entry is an inactive category.
C23_Witness ==
    /\ BreadcrumbAnswered
    /\ Len(response.data) = 3
    /\ categories[response.data[1].id].parent = None
    /\ ~categories[response.data[2].id].is_active
    /\ response.data[3].id = response.pk

\* The children list of the last request, when it was answered with one.
ChildrenAnswered ==
    response.kind = "children" /\ response.status = "200"

\* C24: a children list that is answered holds exactly the active
\* categories whose parent is the category asked for (no category further
\* down, no inactive one), each once, ordered by sort_order and, where the
\* sort_order is the same, by name; and is_leaf of a category is true
\* exactly when that category has no such child.
C24_Children ==
    /\ ChildrenAnswered =>
          LET data == response.data
          IN  /\ {data[i].id : i \in DOMAIN data}
                    = {k \in DOMAIN categories :
                          /\ categories[k].parent = response.pk
                          /\ categories[k].is_active}
              /\ \A i, j \in DOMAIN data :
                    i < j =>
                       \/ data[i].sort_order < data[j].sort_order
                       \/ /\ data[i].sort_order = data[j].sort_order
                          /\ NameRank(data[i].name) < NameRank(data[j].name)
              /\ \A i \in DOMAIN data :
                    /\ data[i].sort_order = categories[data[i].id].sort_order
                    /\ data[i].name = categories[data[i].id].name
              /\ IsLeaf(response.pk) <=> data = <<>>
    /\ (response.kind = "detail" /\ response.status = "200") =>
          (response.is_leaf <=>
              {k \in DOMAIN categories :
                  /\ categories[k].parent = response.pk
                  /\ categories[k].is_active} = {})

\* C24 witness: a category with two active children is answered with both,
\* the one of the lower sort_order first although its name sorts last.
C24_Witness ==
    /\ ChildrenAnswered
    /\ Len(response.data) = 2
    /\ response.data[1].sort_order < response.data[2].sort_order
    /\ NameRank(response.data[1].name) > NameRank(response.data[2].name)
    /\ ~IsLeaf(response.pk)

\* The nested {id, name, children} structure of a category: its active
\* children in the order of sort_order and name, each with its own
\* structure, down to n levels.
RECURSIVE NestedTree(_, _)
NestedTree(c, n) ==
    [id |-> c, name |-> categories[c].name,
     children |->
        IF n = 0 THEN <<>>
        ELSE [i \in DOMAIN Subcategories(c) |->
                 NestedTree(Subcategories(c)[i], n - 1)]]

\* C25: the tree request is answered with one nested {id, name, children}
\* structure for every active root category, in the order of sort_order
\* and name, whose children at every depth are the node's active children
\* in that order.
C25_Tree ==
    response.kind = "tree" =>
        /\ response.status = "200"
        /\ response.data =
              [i \in DOMAIN ActiveRoots |->
                  NestedTree(ActiveRoots[i], Len(categories))]

\* The step that answers a children or a breadcrumb request.
KeyedRead == response'.kind \in {"children", "breadcrumb"}

C27_CustomerRecorded ==
    [][CommitStep =>
          /\ NewOrder.customer = tx.raw.user
          /\ NewOrder \in OrderQueryset(tx.raw.user)']_vars

\* An order row that may be returned to a user: not soft-deleted and, for a
\* user who is neither staff nor superuser, with that user as customer.
MayReturn(o, user) ==
    /\ ~o.is_deleted
    /\ user \in Users
    /\ IsStaff(user) \/ IsSuperuser(user) \/ o.customer = user

\* C30: every order the order list returns and the order the order detail
\* returns is not soft-deleted, and when the user is neither staff nor
\* superuser its customer is that user (not another user, not unset).
C30_OrderVisibility ==
    /\ (response.kind = "order_list" /\ response.status = "200") =>
          \A o \in response.data : MayReturn(o, response.user)
    /\ (response.kind = "order_detail" /\ response.status = "200") =>
          MayReturn(response.data, response.user)

\* C30 witness: a user who is neither staff nor superuser retrieved the
\* order that the admin had made theirs.
C30_Witness ==
    /\ response.kind = "order_detail"
    /\ response.status = "200"
    /\ ~IsStaff(response.user)
    /\ ~IsSuperuser(response.user)
    /\ response.data.customer = response.user
    /\ response.data = orders[response.id]

\* The products a listing by category is to return: the active, not
\* deleted products whose category is the category or one of its
\* descendants.
ListedUnder(category) ==
    {p \in DOMAIN products :
        /\ products[p].is_active
        /\ ~products[p].is_deleted
        /\ products[p].category
              \in {category} \cup ActiveBelow(category, {}, Len(categories))}

\* C28: the product list asked for with category=C, for a stored category
\* C, is answered with exactly the active, not deleted products whose
\* category is C or a descendant of C.  It is stated for the stores whose
\* parent links are acyclic, in which get_descendants returns.
C28_ListByCategory ==
    [][\A category \in DOMAIN categories :
          (Acyclic /\ ProductList(category)) =>
              /\ response'.status = "200"
              /\ response'.results = ListedUnder(category)]_vars

\* C29: a step that soft-deletes a product leaves the product and every
\* one of its variations is_deleted and not is_active; a step that restores
\* a soft-deleted product leaves the product not is_deleted and is_active
\* and changes no variation, so that the variations the soft delete marked
\* stay soft-deleted and inactive; and a variation comes back only by a
\* step that restores that variation alone.
C29_SoftDeleteRestore ==
    [][/\ \A p \in ProductIds :
             /\ (~products[p].is_deleted /\ products'[p].is_deleted) =>
                   /\ ~products'[p].is_active
                   /\ \A v \in VariationIds :
                         variations[v].product = p =>
                            /\ variations'[v].is_deleted
                            /\ ~variations'[v].is_active
             /\ (products[p].is_deleted /\ ~products'[p].is_deleted) =>
                   /\ products'[p].is_active
                   /\ variations' = variations
       /\ \A v \in VariationIds :
             (variations[v].is_deleted /\ ~variations'[v].is_deleted) =>
                /\ variations'[v].is_active
                /\ products' = products
                /\ \A w \in VariationIds \ {v} :
                      variations'[w] = variations[w]]_vars

\* C29 witness: of two soft-deleted products the first was restored; it is
\* active again, and its variation is still soft-deleted and inactive.
C29_Witness ==
    /\ changes > 0
    /\ ~products[1].is_deleted
    /\ products[1].is_active
    /\ products[2].is_deleted
    /\ variations[1].product = 1
    /\ variations[1].is_deleted
    /\ ~variations[1].is_active

====
